---- MODULE Spec2Model ----
(***************************************************************************)
(* Model of the HypurrFi revenue and TVL fetchers                          *)
(*   src/src/fetch_hypurrfi_revenue.py   (workflow "revenue")              *)
(*   src/src/fetch_hypurrfi_tvl.py       (workflow "tvl")                  *)
(*                                                                         *)
(* Instants are epoch seconds, dates are days since the epoch (the day     *)
(* number an ISO date string stands for), money is counted in millionths   *)
(* of a dollar so that the six-decimal formatting is a real conversion.    *)
(* A decoded JSON value is a tagged record: t is one of "null", "num",     *)
(* "numstr" (a string Python's int()/float() accept), "badstr" (a string   *)
(* they reject), "list", "dict".                                           *)
(* Each behaviour runs one of the two scripts, run after run; the two      *)
(* scripts write different files.  The debug artifact and the log stream   *)
(* are not part of the state; a failed read of the hourly file is not      *)
(* modelled (the files are those the script itself wrote).                 *)
(***************************************************************************)
EXTENDS Integers, Sequences, FiniteSets, TLC

SecondsPerHour == 3600
SecondsPerDay == 86400
Million == 1000000

(* ---------------- bounds of the model ---------------- *)
\* number of clock ticks a behaviour may take after the first instant
MaxTicks == 4
\* longest series generated for the normalisation specification
MaxItems == 2

(* ---------------- decoded JSON values ---------------- *)
Null == [t |-> "null", n |-> 0, items |-> <<>>, kv |-> <<>>]
Num(k) == [t |-> "num", n |-> k, items |-> <<>>, kv |-> <<>>]
NumStr(k) == [t |-> "numstr", n |-> k, items |-> <<>>, kv |-> <<>>]
BadStr == [t |-> "badstr", n |-> 0, items |-> <<>>, kv |-> <<>>]
List(s) == [t |-> "list", n |-> 0, items |-> s, kv |-> <<>>]
Dict(f) == [t |-> "dict", n |-> 0, items |-> <<>>, kv |-> f]

\* Python truth value of a decoded JSON value (strings here are non-empty)
Truthy(x) ==
  CASE x.t = "null" -> FALSE
    [] x.t = "num" -> x.n # 0
    [] x.t = "list" -> Len(x.items) > 0
    [] x.t = "dict" -> DOMAIN x.kv # {}
    [] OTHER -> TRUE

\* dict.get(k): the value, or None when the key is absent
Get(d, k) == IF k \in DOMAIN d.kv THEN d.kv[k] ELSE Null

\* a or b
Or(a, b) == IF Truthy(a) THEN a ELSE b

\* int(x) / float(x) succeed on numbers and numeric strings only
CanInt(x) == x.t \in {"num", "numstr"}
CanFloat(x) == x.t \in {"num", "numstr"}

(* ---------------- revenue: parsing and normalisation ---------------- *)
HL1 == "Hyperliquid L1"

ts_to_date_str(ts) == ts \div SecondsPerDay

\* sum of a per-product map: float(v or 0.0), failures ignored
RECURSIVE hl1_sum(_, _)
hl1_sum(f, keys) ==
  IF keys = {} THEN 0
  ELSE LET k == CHOOSE x \in keys : TRUE
           v == Or(f[k], Num(0))
       IN (IF CanFloat(v) THEN v.n ELSE 0) + hl1_sum(f, keys \ {k})

\* the total of one "Hyperliquid L1" entry; raised when float() throws
hl1_total(hl1) ==
  IF hl1.t = "dict"
  THEN [raised |-> FALSE, total |-> hl1_sum(hl1.kv, DOMAIN hl1.kv)]
  ELSE LET v == Or(hl1, Num(0))
       IN IF CanFloat(v) THEN [raised |-> FALSE, total |-> v.n]
          ELSE [raised |-> TRUE, total |-> 0]

RECURSIVE hl1_loop(_, _, _)
hl1_loop(tdcbd, i, rows) ==
  IF i > Len(tdcbd) THEN [raised |-> FALSE, rows |-> rows]
  ELSE LET item == tdcbd[i]
       IN IF ~(item.t = "list" /\ Len(item.items) >= 2)
          THEN hl1_loop(tdcbd, i + 1, rows)
          ELSE LET ts == item.items[1]
                   payload == item.items[2]
               IN IF payload.t # "dict" THEN hl1_loop(tdcbd, i + 1, rows)
                  ELSE IF Get(payload, HL1).t = "null"
                       THEN hl1_loop(tdcbd, i + 1, rows)
                  ELSE LET tot == hl1_total(Get(payload, HL1))
                       IN IF tot.raised \/ ~CanInt(ts)
                          THEN [raised |-> TRUE, rows |-> rows]
                          ELSE hl1_loop(tdcbd, i + 1,
                                 Append(rows, [date |-> ts_to_date_str(ts.n),
                                               value |-> tot.total]))

\* j.get on a document that is not an object raises AttributeError
prefer_hl1_from_breakdown(j) ==
  IF j.t # "dict" THEN [raised |-> TRUE, rows |-> <<>>]
  ELSE LET top == Get(j, "totalDataChartBreakdown")
           data == IF "data" \in DOMAIN j.kv THEN j.kv["data"] ELSE Dict(<<>>)
           tdcbd == IF top.t # "list" /\ data.t = "dict"
                    THEN Get(data, "totalDataChartBreakdown")
                    ELSE top
       IN IF tdcbd.t = "list" THEN hl1_loop(tdcbd.items, 1, <<>>)
          ELSE [raised |-> FALSE, rows |-> <<>>]

\* first of the keys ks (in order) that holds a non-empty list in d
RECURSIVE first_chart(_, _, _)
first_chart(d, ks, i) ==
  IF i > Len(ks) THEN Null
  ELSE LET arr == Get(d, ks[i])
       IN IF arr.t = "list" /\ Truthy(arr) THEN arr
          ELSE first_chart(d, ks, i + 1)

ChartKeys == <<"totalDataChart", "dailyDataChart">>

rev_pick_series(j) ==
  IF j.t # "dict" THEN <<>>
  ELSE LET top == first_chart(j, ChartKeys, 1)
           data == IF "data" \in DOMAIN j.kv THEN j.kv["data"] ELSE Dict(<<>>)
           nested == IF data.t = "dict" THEN first_chart(data, ChartKeys, 1)
                     ELSE Null
       IN IF top.t = "list" THEN top.items
          ELSE IF nested.t = "list" THEN nested.items
          ELSE <<>>

\* a or b or c ... over the values of the keys ks of an object
RECURSIVE or_chain(_, _, _)
or_chain(item, ks, i) ==
  IF i = Len(ks) THEN Get(item, ks[i])
  ELSE Or(Get(item, ks[i]), or_chain(item, ks, i + 1))

TsKeys == <<"date", "timestamp", "time">>
RevValKeys == <<"value", "revenue", "protocolRevenue", "dailyRevenue">>

\* one iteration of normalize_to_rows: the (date, value) row or a skip
rev_item(item) ==
  LET isPair == item.t = "list" /\ Len(item.items) >= 2
      ts == IF isPair THEN item.items[1]
            ELSE IF item.t = "dict" THEN or_chain(item, TsKeys, 1)
            ELSE Null
      val == IF isPair THEN item.items[2]
             ELSE IF item.t = "dict" THEN or_chain(item, RevValKeys, 1)
             ELSE Null
  IN IF ts.t = "null" \/ val.t = "null" THEN [ok |-> FALSE, date |-> 0, value |-> 0]
     ELSE IF ~CanInt(ts) \/ ~CanFloat(val) THEN [ok |-> FALSE, date |-> 0, value |-> 0]
     ELSE [ok |-> TRUE, date |-> ts_to_date_str(ts.n), value |-> val.n]

\* dd[d] = v for every row in order: the mapping date -> last value
RECURSIVE dict_fold(_, _, _)
dict_fold(rows, i, dd) ==
  IF i > Len(rows) THEN dd
  ELSE dict_fold(rows, i + 1,
         [d \in DOMAIN dd \cup {rows[i].date} |->
            IF d = rows[i].date THEN rows[i].value ELSE dd[d]])

\* sorted(dd.items()): rows ascending by date
RECURSIVE sorted_items(_, _)
sorted_items(dd, ds) ==
  IF ds = {} THEN <<>>
  ELSE LET m == CHOOSE x \in ds : \A y \in ds : x <= y
       IN <<[date |-> m, value |-> dd[m]]>> \o sorted_items(dd, ds \ {m})

dedupe_sorted(rows) ==
  LET dd == dict_fold(rows, 1, <<>>) IN sorted_items(dd, DOMAIN dd)

RECURSIVE rev_rows(_, _)
rev_rows(arr, i) ==
  IF i > Len(arr) THEN <<>>
  ELSE LET r == rev_item(arr[i])
       IN (IF r.ok THEN <<[date |-> r.date, value |-> r.value]>> ELSE <<>>)
          \o rev_rows(arr, i + 1)

normalize_to_rows(arr) ==
  LET rows == rev_rows(arr, 1)
  IN [rows |-> dedupe_sorted(rows), parsed |-> Len(rows),
      bad |-> Len(arr) - Len(rows)]

(* ---------------- tvl: parsing and normalisation ---------------- *)
CHAIN_KEYS == <<"Hyperliquid L1", "Hyperliquid">>
TvlValKeys == <<"totalLiquidityUSD", "totalLiquidityUsd", "totalLiquidity",
                "tvl", "value", "liquidityUSD">>

\* the first chain block, in CHAIN_KEYS order, that is an object with a tvl list
RECURSIVE chain_series(_, _)
chain_series(chain, i) ==
  IF i > Len(CHAIN_KEYS) THEN Null
  ELSE LET blk == Get(chain, CHAIN_KEYS[i])
       IN IF blk.t = "dict" /\ Get(blk, "tvl").t = "list" THEN Get(blk, "tvl")
          ELSE chain_series(chain, i + 1)

\* chain.get on a truthy chainTvls that is not an object raises AttributeError
tvl_pick_series(j) ==
  IF j.t # "dict" THEN [raised |-> FALSE, series |-> <<>>]
  ELSE LET chain == Or(Get(j, "chainTvls"), Dict(<<>>))
       IN IF chain.t # "dict" THEN [raised |-> TRUE, series |-> <<>>]
          ELSE IF chain_series(chain, 1).t = "list"
               THEN [raised |-> FALSE, series |-> chain_series(chain, 1).items]
          ELSE IF Get(j, "tvl").t = "list"
               THEN [raised |-> FALSE, series |-> Get(j, "tvl").items]
          ELSE [raised |-> FALSE, series |-> <<>>]

\* the first value key, in TvlValKeys order, present in the object (0 if none)
RECURSIVE first_present(_, _)
first_present(item, i) ==
  IF i > Len(TvlValKeys) THEN 0
  ELSE IF TvlValKeys[i] \in DOMAIN item.kv THEN i
  ELSE first_present(item, i + 1)

NoPair == [ok |-> FALSE, ts |-> 0, val |-> 0]

extract_ts_val(item) ==
  IF item.t = "list" /\ Len(item.items) >= 2
  THEN IF CanInt(item.items[1]) /\ CanFloat(item.items[2])
       THEN [ok |-> TRUE, ts |-> item.items[1].n, val |-> item.items[2].n]
       ELSE NoPair
  ELSE IF item.t = "dict"
  THEN LET ts == or_chain(item, TsKeys, 1)
           k == first_present(item, 1)
       IN IF k = 0 THEN NoPair
          ELSE IF CanInt(ts) /\ CanFloat(item.kv[TvlValKeys[k]])
               THEN [ok |-> TRUE, ts |-> ts.n, val |-> item.kv[TvlValKeys[k]].n]
               ELSE NoPair
  ELSE NoPair

RECURSIVE tvl_pairs(_, _)
tvl_pairs(series, i) ==
  IF i > Len(series) THEN <<>>
  ELSE LET p == extract_ts_val(series[i])
       IN (IF p.ok THEN <<[ts |-> p.ts, val |-> p.val]>> ELSE <<>>)
          \o tvl_pairs(series, i + 1)

\* p placed into the ascending sequence s after every element not greater
RECURSIVE insert_stable(_, _)
insert_stable(s, p) ==
  IF s = <<>> THEN <<p>>
  ELSE IF s[Len(s)].ts <= p.ts THEN Append(s, p)
  ELSE Append(insert_stable(SubSeq(s, 1, Len(s) - 1), p), s[Len(s)])

\* out.sort(key=ts): a stable sort
RECURSIVE sort_by_ts(_, _, _)
sort_by_ts(out, i, acc) ==
  IF i > Len(out) THEN acc
  ELSE sort_by_ts(out, i + 1, insert_stable(acc, out[i]))

\* normalize_series without its sort: the samples stay in input order
normalize_series_unsorted(series) ==
  LET out == tvl_pairs(series, 1)
  IN [series |-> out, parsed |-> Len(out), bad |-> Len(series) - Len(out)]

normalize_series(series) ==
  LET out == tvl_pairs(series, 1)
  IN [series |-> sort_by_ts(out, 1, <<>>), parsed |-> Len(out),
      bad |-> Len(series) - Len(out)]

\* the rows mapping of write_daily_csv: date -> value of the last sample
tvl_daily_rows(series) ==
  dedupe_sorted([i \in DOMAIN series |->
                   [date |-> ts_to_date_str(series[i].ts), value |-> series[i].val]])

(* ---------------- the CSV files ---------------- *)
NoFile == [exists |-> FALSE, header |-> FALSE, rows |-> <<>>]

\* f"{v:.6f}" of an amount counted in millionths
Fmt6(v) == [whole |-> v \div Million, frac |-> v % Million]

\* the body of a daily file: one line per row, value in six decimals
RECURSIVE daily_lines(_, _)
daily_lines(rows, i) ==
  IF i > Len(rows) THEN <<>>
  ELSE <<[date |-> rows[i].date, value |-> Fmt6(rows[i].value)]>>
       \o daily_lines(rows, i + 1)

\* revenue write_daily_csv: the file is opened "w"; header only when no rows
rev_write_daily_csv(rows) ==
  [exists |-> TRUE, header |-> TRUE, rows |-> daily_lines(rows, 1)]

\* a writer that merges the fetched rows into the lines of the old file
tvl_write_daily_merge(old, series) ==
  [exists |-> TRUE, header |-> TRUE,
   rows |-> dedupe_sorted(old.rows \o daily_lines(tvl_daily_rows(series), 1))]

\* tvl write_daily_csv: the file is opened "w", so its old content is
\* discarded, and it holds the fetched series only
tvl_write_daily_csv(old, series) ==
  [exists |-> TRUE, header |-> TRUE,
   rows |-> daily_lines(tvl_daily_rows(series), 1)]

\* now_utc.replace(minute=0, second=0, microsecond=0)
top_of_hour(now) == now - (now % SecondsPerHour)

\* datetime.isoformat() of an aware UTC datetime without microseconds
isoformat(ts) ==
  [date |-> ts \div SecondsPerDay,
   hour |-> (ts % SecondsPerDay) \div SecondsPerHour,
   minute |-> (ts % SecondsPerHour) \div 60,
   second |-> ts % 60,
   tz |-> "+00:00"]

\* str.replace(a, b) on the offset suffix of an ISO timestamp
replace_tz(s, a, b) == [s EXCEPT !.tz = IF @ = a THEN b ELSE @]

\* f"{h:02d}"
two_digits(h) == <<h \div 10, h % 10>>

\* datetime.fromisoformat(s).timestamp()
fromisoformat(s) ==
  s.date * SecondsPerDay + s.hour * SecondsPerHour + s.minute * 60 + s.second

\* a reader that reports no recorded slot
read_existing_none(file) == {}

\* read_existing_hour_slots / read_existing_hours
read_existing_hours(file) ==
  IF file.exists
  THEN {fromisoformat(replace_tz(file.rows[i].timestamp_utc, "Z", "+00:00")) :
          i \in DOMAIN file.rows}
  ELSE {}

hourly_row(hour_slot, date_utc, value) ==
  [timestamp_utc |-> replace_tz(isoformat(hour_slot), "+00:00", "Z"),
   date_utc |-> date_utc,
   hour_utc |-> two_digits(isoformat(hour_slot).hour),
   value |-> Fmt6(value)]

\* the hourly file opened "w" instead of "a": earlier rows are lost
append_rewrite(file, row) ==
  [exists |-> TRUE, header |-> TRUE, rows |-> <<row>>]

\* the file is opened "a"; the header is written only when the file is new
append_to(file, row) ==
  [exists |-> TRUE,
   header |-> IF file.exists THEN file.header ELSE TRUE,
   rows |-> Append(file.rows, row)]

\* revenue append_hourly_sample
append_hourly_sample(file, hour_slot, latest_date, latest_value) ==
  append_to(file, hourly_row(hour_slot, latest_date, latest_value))

\* tvl append_hourly
append_hourly(file, observed_slot, tvl_usd) ==
  append_to(file, hourly_row(observed_slot, isoformat(observed_slot).date, tvl_usd))

(* ---------------- inputs ---------------- *)
\* 2023-11-14T22:13:20Z, 2023-11-14T23:13:20Z, 2023-11-15T22:13:20Z
Day0 == 19675 * SecondsPerDay
T0 == Day0 + 22 * SecondsPerHour + 800
T1 == T0 + SecondsPerHour
T2 == T0 + SecondsPerDay

\* 2023-11-14T22:50:00Z; the clock moves in steps of 25 minutes
FirstInstant == Day0 + 22 * SecondsPerHour + 50 * 60
TickSeconds == 25 * 60

Pair(ts, val) == List(<<ts, val>>)

SampleSeries == <<Pair(Num(T0), NumStr(12500000)), Pair(Num(T1), Num(7500000)),
                  Pair(Num(T2), Num(20000000))>>
ShortSeries == <<Pair(Num(T1), Num(9000000))>>

\* documents the upstream may serve to the revenue workflow
RevDocs ==
  { Dict("totalDataChart" :> List(SampleSeries)),
    Dict("totalDataChartBreakdown" :>
           List(<<Pair(Num(T1), Dict(HL1 :> Num(5000000)))>>)),
    Dict("data" :> Dict("dailyDataChart" :> List(ShortSeries))),
    Dict(<<>>),
    Dict("totalDataChart" :> BadStr),
    List(<<>>) }

\* documents the upstream may serve to the tvl workflow
TvlDocs ==
  { Dict("tvl" :> List(SampleSeries)),
    Dict(("chainTvls" :> Dict(HL1 :> Dict("tvl" :> List(ShortSeries))))
         @@ ("tvl" :> List(SampleSeries))),
    Dict(<<>>),
    Dict("tvl" :> BadStr),
    Dict("chainTvls" :> List(<<Num(1)>>)),
    List(<<>>) }

Docs(w) == IF w = "revenue" THEN RevDocs ELSE TvlDocs

URLS(w) ==
  IF w = "revenue"
  THEN <<"summary/fees?dataType=dailyProtocolRevenue", "summary/fees?dataType=dailyRevenue">>
  ELSE <<"updatedProtocol", "protocol">>

\* the failures of a GET, as the exception classes that fetch_first_json /
\* fetch_json catch: non-2xx, network error, timeout, malformed body
ErrKinds == {"HTTPError", "URLError", "TimeoutError", "ValueError"}

NoErr == [url |-> "", err |-> ""]
NoExit == [status |-> "none", why |-> "", last |-> NoErr]

(* ---------------- state ---------------- *)
VARIABLES
  wf,       \* which script this behaviour runs: "revenue" or "tvl"
  hasKey,   \* DUNE_API_KEY is set
  clock,    \* wall clock, epoch seconds
  daily,    \* the daily CSV file
  hourly,   \* the hourly CSV file
  pc,       \* position of the current run in main()
  slot,     \* hour_slot of the current run
  urlIdx,   \* index of the next candidate endpoint
  last,     \* last fetch failure of the current run
  reqs,     \* endpoints requested by the current run, with their outcomes
  j,        \* the decoded document
  rows,     \* revenue: reconciled (date, value) rows
  series,   \* tvl: normalised (ts, val) samples
  bad,      \* skipped-element count logged by the normaliser (-1: none logged)
  upl,      \* upload attempts of the current run, with their outcomes
  exit,     \* how the current run ended
  before    \* the files as the current run found them

vars == <<wf, hasKey, clock, daily, hourly, pc, slot, urlIdx, last, reqs, j,
          rows, series, bad, upl, exit, before>>

locals == <<slot, urlIdx, last, reqs, j, rows, series, bad, upl, exit, before>>

IdleLocals ==
  /\ slot = 0 /\ urlIdx = 1 /\ last = NoErr /\ reqs = <<>> /\ j = Null
  /\ rows = <<>> /\ series = <<>> /\ bad = -1 /\ upl = <<>> /\ exit = NoExit
  /\ before = [daily |-> NoFile, hourly |-> NoFile]

Init ==
  /\ wf \in {"revenue", "tvl"}
  /\ hasKey \in BOOLEAN
  /\ clock = FirstInstant
  /\ daily = NoFile
  /\ hourly = NoFile
  /\ pc = "idle"
  /\ IdleLocals

(* ---------------- actions ---------------- *)
\* time passes between runs
Tick ==
  /\ pc = "idle"
  /\ clock < FirstInstant + MaxTicks * TickSeconds
  /\ clock' = clock + TickSeconds
  /\ UNCHANGED <<wf, hasKey, daily, hourly, pc, locals>>

\* main(): now, hour_slot
StartRun ==
  /\ pc = "idle"
  /\ pc' = "fetch"
  /\ slot' = top_of_hour(clock)
  /\ before' = [daily |-> daily, hourly |-> hourly]
  /\ UNCHANGED <<wf, hasKey, clock, daily, hourly, urlIdx, last, reqs, j,
                 rows, series, bad, upl, exit>>

\* a fetch that gives up at the first failing endpoint
fetch_no_fallthrough ==
  /\ pc = "fetch"
  /\ \/ \E doc \in Docs(wf) :
          /\ j' = doc
          /\ reqs' = Append(reqs, [url |-> URLS(wf)[urlIdx], out |-> "ok"])
          /\ pc' = "parse"
          /\ UNCHANGED <<urlIdx, last, exit>>
     \/ \E e \in ErrKinds :
          /\ reqs' = Append(reqs, [url |-> URLS(wf)[urlIdx], out |-> e])
          /\ last' = [url |-> URLS(wf)[urlIdx], err |-> e]
          /\ urlIdx' = urlIdx + 1
          /\ pc' = "fatal"
          /\ exit' = [status |-> "fatal", why |-> "fetch", last |-> last']
          /\ UNCHANGED j
  /\ UNCHANGED <<wf, hasKey, clock, daily, hourly, slot, rows, series, bad,
                 upl, before>>

\* one iteration of the loop of fetch_first_json / fetch_json
fetch_first_json ==
  /\ pc = "fetch"
  /\ \/ \E doc \in Docs(wf) :
          /\ j' = doc
          /\ reqs' = Append(reqs, [url |-> URLS(wf)[urlIdx], out |-> "ok"])
          /\ pc' = "parse"
          /\ UNCHANGED <<urlIdx, last, exit>>
     \/ \E e \in ErrKinds :
          /\ reqs' = Append(reqs, [url |-> URLS(wf)[urlIdx], out |-> e])
          /\ last' = [url |-> URLS(wf)[urlIdx], err |-> e]
          /\ urlIdx' = urlIdx + 1
          /\ IF urlIdx = Len(URLS(wf))
             THEN /\ pc' = "fatal"
                  /\ exit' = [status |-> "fatal", why |-> "fetch", last |-> last']
             ELSE UNCHANGED <<pc, exit>>
          /\ UNCHANGED j
  /\ UNCHANGED <<wf, hasKey, clock, daily, hourly, slot, rows, series, bad,
                 upl, before>>

\* main(): from the document to the reconciled series (revenue)
rev_reconcile ==
  LET hl1 == prefer_hl1_from_breakdown(j)
      legacy == normalize_to_rows(rev_pick_series(j))
  IN /\ pc' = IF hl1.raised THEN "crashed" ELSE "daily"
     /\ exit' = IF hl1.raised
                THEN [status |-> "crash", why |-> "breakdown", last |-> NoErr]
                ELSE exit
     /\ rows' = IF hl1.raised THEN rows
                ELSE IF hl1.rows # <<>> THEN dedupe_sorted(hl1.rows)
                ELSE legacy.rows
     /\ bad' = IF hl1.raised \/ hl1.rows # <<>> THEN bad ELSE legacy.bad
     /\ UNCHANGED series

\* main(): from the document to the normalised series (tvl)
tvl_reconcile ==
  LET p == tvl_pick_series(j)
      n == normalize_series(p.series)
  IN /\ pc' = IF p.raised THEN "crashed" ELSE "daily"
     /\ exit' = IF p.raised
                THEN [status |-> "crash", why |-> "pick_series", last |-> NoErr]
                ELSE exit
     /\ series' = IF p.raised THEN series ELSE n.series
     /\ bad' = IF p.raised THEN bad ELSE n.bad
     /\ UNCHANGED rows

Normalize ==
  /\ pc = "parse"
  /\ IF wf = "revenue" THEN rev_reconcile ELSE tvl_reconcile
  /\ UNCHANGED <<wf, hasKey, clock, daily, hourly, slot, urlIdx, last, reqs,
                 j, upl, before>>

\* main(): write_daily_csv
WriteDaily ==
  /\ pc = "daily"
  /\ IF wf = "revenue"
     THEN /\ daily' = rev_write_daily_csv(rows)
          /\ IF rows = <<>>
             THEN /\ pc' = "fatal"
                  /\ exit' = [status |-> "fatal", why |-> "no rows", last |-> NoErr]
             ELSE pc' = "hourly" /\ UNCHANGED exit
     ELSE /\ daily' = tvl_write_daily_csv(daily, series)
          /\ pc' = "hourly"
          /\ UNCHANGED exit
  /\ UNCHANGED <<wf, hasKey, clock, hourly, slot, urlIdx, last, reqs, j, rows,
                 series, bad, upl, before>>

\* main(): the hourly observation row
HourlyStep ==
  /\ pc = "hourly"
  /\ IF wf = "revenue"
     THEN /\ hourly' = IF rows # <<>> /\ slot \notin read_existing_hours(hourly)
                       THEN append_hourly_sample(hourly, slot,
                              rows[Len(rows)].date, rows[Len(rows)].value)
                       ELSE hourly
          /\ pc' = "upload"
          /\ UNCHANGED exit
     ELSE IF series = <<>>
          THEN /\ pc' = "fatal"
               /\ exit' = [status |-> "fatal", why |-> "no series", last |-> NoErr]
               /\ UNCHANGED hourly
          ELSE /\ hourly' = IF slot \in read_existing_hours(hourly) THEN hourly
                            ELSE append_hourly(hourly, slot, series[Len(series)].val)
               /\ pc' = "done"
               /\ exit' = [status |-> "ok", why |-> "", last |-> NoErr]
  /\ UNCHANGED <<wf, hasKey, clock, daily, slot, urlIdx, last, reqs, j, rows,
                 series, bad, upl, before>>

\* upload_csv_to_dune raises on failure; main() wraps both calls in one try
upload_attempts(key, hourlyExists, outDaily, outHourly) ==
  IF ~key THEN <<>>
  ELSE IF outDaily # "ok" THEN <<[file |-> "daily", out |-> outDaily]>>
  ELSE IF hourlyExists
       THEN <<[file |-> "daily", out |-> outDaily], [file |-> "hourly", out |-> outHourly]>>
  ELSE <<[file |-> "daily", out |-> outDaily]>>

\* main(): the optional upload of both files (revenue only)
Upload ==
  /\ pc = "upload"
  /\ \E o1 \in {"ok", "fail"}, o2 \in {"ok", "fail"} :
       upl' = upload_attempts(hasKey, hourly.exists, o1, o2)
  /\ pc' = "done"
  /\ exit' = [status |-> "ok", why |-> "", last |-> NoErr]
  /\ UNCHANGED <<wf, hasKey, clock, daily, hourly, slot, urlIdx, last, reqs,
                 j, rows, series, bad, before>>

\* the process exits; the next run starts afresh
EndRun ==
  /\ pc \in {"done", "fatal", "crashed"}
  /\ pc' = "idle"
  /\ slot' = 0 /\ urlIdx' = 1 /\ last' = NoErr /\ reqs' = <<>> /\ j' = Null
  /\ rows' = <<>> /\ series' = <<>> /\ bad' = -1 /\ upl' = <<>>
  /\ exit' = NoExit
  /\ before' = [daily |-> NoFile, hourly |-> NoFile]
  /\ UNCHANGED <<wf, hasKey, clock, daily, hourly>>

Next ==
  \/ Tick \/ StartRun \/ fetch_first_json \/ Normalize \/ WriteDaily
  \/ HourlyStep \/ Upload \/ EndRun

Spec == Init /\ [][Next]_vars

(* ---------------- normalisation on generated series ---------------- *)
\* sequences over S of length 1 .. n
SeqsUpTo(S, n) == UNION {[1..k -> S] : k \in 1..n}

NormVals == {12500000, 7500000}

PairItems == {Pair(Num(t), Num(v)) : t \in {T0, T1, T2}, v \in NormVals}

MalformedItems ==
  { Pair(BadStr, Num(7500000)),
    Pair(Num(T0), BadStr),
    Dict(<<>>),
    Dict("date" :> Num(T0)) }

ObjItems ==
  { Dict(("date" :> Num(T1)) @@ ("value" :> Num(7500000))),
    Dict(("date" :> Num(T0)) @@ ("value" :> Num(0))),
    Dict(("date" :> Num(T0)) @@ ("value" :> Num(0)) @@ ("revenue" :> Num(5000000))),
    Dict(("timestamp" :> Num(T0)) @@ ("tvl" :> Num(0)) @@ ("value" :> Num(5000000))),
    Dict(("date" :> Num(0)) @@ ("timestamp" :> Num(T0)) @@ ("value" :> Num(7500000))) }

NormItems == PairItems \cup MalformedItems \cup ObjItems

BreakdownItems ==
  { Pair(Num(T0), Dict(HL1 :> Num(5000000))),
    Pair(Num(T1), Dict(HL1 :> Dict(("lend" :> Num(3000000)) @@ ("swap" :> BadStr)))),
    Pair(Num(T2), Dict("Ethereum" :> Num(1000000))),
    Pair(BadStr, Dict(HL1 :> Num(3000000))),
    Pair(Num(T0), Dict(HL1 :> BadStr)),
    Num(1) }

NormDocs(w) ==
  IF w = "revenue"
  THEN {Dict("totalDataChart" :> List(s)) : s \in SeqsUpTo(NormItems, MaxItems)}
       \cup {Dict("totalDataChartBreakdown" :> List(s)) :
               s \in SeqsUpTo(BreakdownItems, MaxItems)}
  ELSE {Dict("tvl" :> List(s)) : s \in SeqsUpTo(NormItems, MaxItems)}

\* a run whose fetch has just returned one of the generated documents
InitNorm ==
  /\ wf \in {"revenue", "tvl"}
  /\ hasKey = FALSE
  /\ clock = FirstInstant
  /\ daily = NoFile
  /\ hourly = NoFile
  /\ pc = "parse"
  /\ slot = top_of_hour(FirstInstant)
  /\ urlIdx = 1 /\ last = NoErr
  /\ reqs = <<[url |-> URLS(wf)[1], out |-> "ok"]>>
  /\ j \in NormDocs(wf)
  /\ rows = <<>> /\ series = <<>> /\ bad = -1 /\ upl = <<>> /\ exit = NoExit
  /\ before = [daily |-> NoFile, hourly |-> NoFile]

NextNorm == Normalize \/ WriteDaily \/ HourlyStep

SpecNorm == InitNorm /\ [][NextNorm]_vars

(* ---------------- vocabulary of the properties ---------------- *)
\* the series a generated document carries under its one key
InputSeries ==
  IF j.t = "dict" /\ DOMAIN j.kv # {}
  THEN LET k == CHOOSE x \in DOMAIN j.kv : TRUE
       IN IF j.kv[k].t = "list" THEN j.kv[k].items ELSE <<>>
  ELSE <<>>

IsBreakdownDoc == j.t = "dict" /\ "totalDataChartBreakdown" \in DOMAIN j.kv

\* a [timestamp, value] pair of two numbers
IsSample(item) ==
  /\ item.t = "list" /\ Len(item.items) = 2
  /\ item.items[1].t = "num" /\ item.items[2].t = "num"

AllSamples(s) == s # <<>> /\ \A i \in DOMAIN s : IsSample(s[i])

SampleTs(item) == item.items[1].n
SampleDate(item) == item.items[1].n \div SecondsPerDay
SampleValue(item) == item.items[2].n

\* an amount in millionths as dollars and six fractional digits
Money(v) == [whole |-> v \div Million, frac |-> v % Million]

\* the daily file holds exactly one row for date d, and it carries value v
DailyHolds(d, v) ==
  /\ \E i \in DOMAIN daily.rows : daily.rows[i].date = d /\ daily.rows[i].value = v
  /\ Cardinality({i \in DOMAIN daily.rows : daily.rows[i].date = d}) = 1

\* s[i] is the last element of its date in input order
LastInInput(s, i) ==
  \A k \in DOMAIN s : (k # i /\ SampleDate(s[k]) = SampleDate(s[i])) => k < i

\* s[i] has the greatest timestamp of its date, and is the last of those
LatestStamp(s, i) ==
  \A k \in DOMAIN s :
     (k # i /\ SampleDate(s[k]) = SampleDate(s[i])) =>
        \/ SampleTs(s[k]) < SampleTs(s[i])
        \/ SampleTs(s[k]) = SampleTs(s[i]) /\ k < i

\* the hour, counted from the epoch, a row of the hourly file is stamped with
RowHour(r) == r.timestamp_utc.date * 24 + r.timestamp_utc.hour

RecordedHours(file) == {RowHour(file.rows[i]) : i \in DOMAIN file.rows}

\* the UTC hour the current run executes in
RunHour == clock \div SecondsPerHour

\* the run got past the Hourly Observation Logger with a non-empty series
LoggerRan == pc \in {"upload", "done"}

\* the run got past the Daily Snapshot Writer
DailyWritten ==
  \/ pc \in {"hourly", "upload", "done"}
  \/ pc = "fatal" /\ exit.why \in {"no rows", "no series"}

\* the run has ended after a successful fetch
EndedAfterFetch ==
  /\ pc \in {"done", "fatal", "crashed"}
  /\ reqs # <<>> /\ reqs[Len(reqs)].out = "ok"

(* ---------------- C1 ---------------- *)
\* C1: the hourly log never holds two rows of the same UTC hour; a run in
\* an hour already recorded appends nothing, a run in an hour not yet
\* recorded appends exactly one row, of that hour.
C1_OneRowPerHour ==
  /\ \A i, k \in DOMAIN hourly.rows :
        i # k => RowHour(hourly.rows[i]) # RowHour(hourly.rows[k])
  /\ LoggerRan =>
        IF RunHour \in RecordedHours(before.hourly)
        THEN hourly = before.hourly
        ELSE /\ Len(hourly.rows) = Len(before.hourly.rows) + 1
             /\ RowHour(hourly.rows[Len(hourly.rows)]) = RunHour

\* a second run within an hour skipped, after the log had grown over two
\* different hours
C1_Witness ==
  /\ LoggerRan
  /\ Len(hourly.rows) >= 2
  /\ RunHour \in RecordedHours(before.hourly)
  /\ hourly = before.hourly

(* ---------------- C2 ---------------- *)
FetchedDates == {series[i].ts \div SecondsPerDay : i \in DOMAIN series}

FetchedValues(d) ==
  {Money(series[i].val) : i \in {k \in DOMAIN series : series[k].ts \div SecondsPerDay = d}}

C4_UploadsIndependent ==
  (/\ wf = "revenue" /\ pc = "done" /\ hasKey /\ hourly.exists
   /\ upl # <<>> /\ upl[1].file = "daily" /\ upl[1].out = "fail") =>
     /\ exit.status = "ok"
     /\ \E i \in DOMAIN upl : upl[i].file = "hourly"

(* ---------------- C5 ---------------- *)
\* the row the Hourly Observation Logger is to append for the current run
ExpectedHourlyRow ==
  LET h == (clock % SecondsPerDay) \div SecondsPerHour
  IN [timestamp_utc |-> [date |-> clock \div SecondsPerDay, hour |-> h,
                          minute |-> 0, second |-> 0, tz |-> "Z"],
      date_utc |-> clock \div SecondsPerDay,
      hour_utc |-> <<h \div 10, h % 10>>,
      value |-> daily.rows[Len(daily.rows)].value]

\* C5: a run in an hour not yet recorded, with a non-empty daily series,
\* appends exactly one row: the hour slot with a Z suffix, the date of that
\* hour slot, its two-digit hour, and the value of the latest daily record.
C5_AppendedRow ==
  (/\ LoggerRan /\ daily.rows # <<>>
   /\ RunHour \notin RecordedHours(before.hourly)) =>
     hourly.rows = Append(before.hourly.rows, ExpectedHourlyRow)

(* ---------------- C6 ---------------- *)
\* C6: whatever a run does, the hourly log it found is a prefix of the log
\* it leaves, header included, and the run adds at most one row.
C6_HourlyOnlyExtended ==
  pc # "idle" =>
     /\ Len(hourly.rows) >= Len(before.hourly.rows)
     /\ Len(hourly.rows) <= Len(before.hourly.rows) + 1
     /\ \A i \in DOMAIN before.hourly.rows : hourly.rows[i] = before.hourly.rows[i]
     /\ before.hourly.exists => (hourly.exists /\ hourly.header = before.hourly.header)

\* a run has appended a row to a log that already held rows
C6_Witness ==
  /\ pc = "done"
  /\ Len(before.hourly.rows) >= 1
  /\ Len(hourly.rows) = Len(before.hourly.rows) + 1

HoldsList(d, k) == d.t = "dict" /\ k \in DOMAIN d.kv /\ d.kv[k].t = "list"

\* the document carries a series under one of the recognised fields
RecognizedSeries(d) ==
  IF wf = "revenue"
  THEN \E k \in {"totalDataChartBreakdown", "totalDataChart", "dailyDataChart"} :
          \/ HoldsList(d, k)
          \/ d.t = "dict" /\ "data" \in DOMAIN d.kv /\ HoldsList(d.kv["data"], k)
  ELSE \/ HoldsList(d, "tvl")
       \/ /\ d.t = "dict" /\ "chainTvls" \in DOMAIN d.kv
          /\ d.kv["chainTvls"].t = "dict"
          /\ \E c \in DOMAIN d.kv["chainTvls"].kv : HoldsList(d.kv["chainTvls"].kv[c], "tvl")

\* C10: a decoded document without a recognised series never crashes the
\* run: the daily file is written header-only, the run ends with a reported
\* warning or fatal condition, and the hourly log gets no row.
C10_SchemaMismatchHandled ==
  (EndedAfterFetch /\ ~RecognizedSeries(j)) =>
     /\ pc # "crashed"
     /\ exit.status \in {"ok", "fatal"}
     /\ daily = [exists |-> TRUE, header |-> TRUE, rows |-> <<>>]
     /\ hourly = before.hourly

OutputDates ==
  IF wf = "revenue" THEN {rows[i].date : i \in DOMAIN rows}
  ELSE {series[i].ts \div SecondsPerDay : i \in DOMAIN series}

\* a breakdown entry [timestamp, {chain: number or map}] with a numeric
\* timestamp and a numeric (or per-product) Hyperliquid L1 value
IsBreakdownSample(e) ==
  /\ e.t = "list" /\ Len(e.items) = 2 /\ e.items[1].t = "num"
  /\ e.items[2].t = "dict" /\ HL1 \in DOMAIN e.items[2].kv
  /\ e.items[2].kv[HL1].t \in {"num", "dict"}

\* C7: a malformed element of a usable series never aborts the run, in the
\* breakdown path either: it is dropped and counted, and every well-formed
\* element of the series still yields its sample.
C7_MalformedNeverFatal ==
  (/\ pc # "parse"
   /\ InputSeries # <<>>
   /\ \A i \in DOMAIN InputSeries :
         InputSeries[i] \in PairItems \cup MalformedItems \cup BreakdownItems) =>
     /\ pc # "crashed"
     /\ IF IsBreakdownDoc
        THEN \A i \in DOMAIN InputSeries :
                IsBreakdownSample(InputSeries[i]) =>
                   InputSeries[i].items[1].n \div SecondsPerDay \in OutputDates
        ELSE /\ bad = Cardinality({i \in DOMAIN InputSeries : ~IsSample(InputSeries[i])})
             /\ \A i \in DOMAIN InputSeries :
                   IsSample(InputSeries[i]) => SampleDate(InputSeries[i]) \in OutputDates

(* ---------------- C9 ---------------- *)
ValKeys == IF wf = "revenue" THEN RevValKeys ELSE TvlValKeys

HasKeyOf(item, ks) == \E i \in DOMAIN ks : ks[i] \in DOMAIN item.kv

\* the value of the first key of ks, in order, that the object holds
FirstPresent(item, ks) ==
  LET i == CHOOSE x \in DOMAIN ks :
             /\ ks[x] \in DOMAIN item.kv
             /\ \A y \in DOMAIN ks : y < x => ks[y] \notin DOMAIN item.kv
  IN item.kv[ks[i]]

\* C9: an object element yields the sample made of its first present
\* timestamp key and its first present value key, whatever they hold (0 too).
C9_FirstPresentKey ==
  (/\ pc # "parse" /\ ~IsBreakdownDoc
   /\ Len(InputSeries) = 1
   /\ InputSeries[1].t = "dict"
   /\ HasKeyOf(InputSeries[1], TsKeys) /\ HasKeyOf(InputSeries[1], ValKeys)
   /\ FirstPresent(InputSeries[1], TsKeys).t = "num"
   /\ FirstPresent(InputSeries[1], ValKeys).t = "num") =>
     /\ bad = 0
     /\ IF wf = "revenue"
        THEN rows = <<[date |-> FirstPresent(InputSeries[1], TsKeys).n \div SecondsPerDay,
                       value |-> FirstPresent(InputSeries[1], ValKeys).n]>>
        ELSE series = <<[ts |-> FirstPresent(InputSeries[1], TsKeys).n,
                         val |-> FirstPresent(InputSeries[1], ValKeys).n]>>

====
